---- MODULE Spec2Model ----
(***************************************************************************)
(* The Game of Life of gameoflife.py: the grid primitives (ix, empty,      *)
(* glider, add, shift), the neighbor count under each surface, the         *)
(* generation update, the text encoding (show, parse), the driver loop     *)
(* and the code-golf variant of the update.                                *)
(*                                                                         *)
(* A Python list is a sequence; Python's 0-based index x is element x + 1. *)
(* A str is a sequence of one-character strings.  A raised exception is a  *)
(* control position (pc) of the caller, and each function that can raise   *)
(* comes with a predicate saying when it does.                             *)
(***************************************************************************)
EXTENDS Integers, Sequences, FiniteSets, TLC

VARIABLES
    pc,               \* where the caller is: before the call, returned, or the exception raised
    board,            \* the Board an operation is given
    surface,          \* the Surface of the call
    new_board,        \* update's new_board, as returned
    neighbor_counts,  \* update's local neighbor_count, recorded for every cell (y, x)
    args,             \* the arguments a board is composed from (width, height, x, y, pattern)
    other,            \* add's parameter other: the pattern after shift
    heap,             \* the row objects (Python lists) alive in the loop, by identity
    row_ids,          \* the identities of the rows of the loop's board
    iteration,        \* loop's local iteration
    history,          \* every board the loop has held: its row identities and its cells then
    text,             \* a board as text: show's result, then the external program's output
    lines,            \* the lines given to parse
    output            \* parse's output, as returned

vars == <<pc, board, surface, new_board, neighbor_counts,
          args, other, heap, row_ids, iteration, history, text, lines, output>>

update_vars == <<new_board, neighbor_counts>>
compose_vars == <<other>>
loop_vars == <<heap, row_ids, iteration, history>>
text_vars == <<text, lines, output>>

(***************************************************************************)
(* Bounds of the model.                                                    *)
(***************************************************************************)
MaxH == 3        \* rows of a uniform grid given to update
MaxW == 3        \* columns of a uniform grid given to update
MaxRaggedH == 2  \* rows of a grid with unequal row lengths
MaxRaggedW == 2  \* longest row of a grid with unequal row lengths
MaxPatH == 2     \* rows of a pattern given to shift
MaxPatW == 1     \* longest row of a pattern given to shift
MaxShift == 2    \* largest shift offset
MaxEmptyDim == 3 \* largest width and height of the empty grid a pattern is added to
MaxDim == 6      \* largest width and height of the board the loop runs on
MaxIterations == 4  \* loop's max_iterations
MaxTextH == 2    \* rows of a grid given to show
MaxTextW == 2    \* columns of a grid given to show
MaxLines == 2    \* lines given to parse
MaxLineLen == 2  \* characters of a line given to parse

(***************************************************************************)
(* Constants of gameoflife.py.                                             *)
(***************************************************************************)
LIVE == TRUE
DEAD == FALSE

empty_row == << >>

surfaces == {"sphere", "rectangle", "infinite", "torus", "?"}

(***************************************************************************)
(* Grids the operations are applied to.                                    *)
(***************************************************************************)
Rows(w) == [1..w -> BOOLEAN]

UniformGrids(maxh, maxw) ==
    UNION {[1..h -> Rows(w)] : h \in 1..maxh, w \in 1..maxw}

RaggedGrids(maxh, maxw) ==
    UNION {[1..h -> UNION {Rows(w) : w \in 0..maxw}] : h \in 1..maxh}

IsUniform(b) ==
    /\ Len(b) >= 1
    /\ Len(b[1]) >= 1
    /\ \A y \in 1..Len(b) : Len(b[y]) = Len(b[1])

(***************************************************************************)
(* ix: row[x] if 0 <= x < len(row) else default.                           *)
(***************************************************************************)
\* ix without its lower bound: Python's row[x] for a negative x counts from the end
ix_negative_index(row, x, default) ==
    IF 0 - Len(row) <= x /\ x < Len(row)
    THEN row[((x + Len(row)) % Len(row)) + 1]
    ELSE default

ix(row, x, default) ==
    IF 0 <= x /\ x < Len(row) THEN row[x + 1] ELSE default

\* list.count(LIVE)
CountLive(cells) == Cardinality({i \in 1..Len(cells) : cells[i] = LIVE})

(***************************************************************************)
(* neighbors.  Under "sphere" the defaults row[-1], row[0], next_row[-1],  *)
(* next_row[0], prev_row[-1], prev_row[0] are evaluated before ix is       *)
(* called, so an empty row among the three raises IndexError.              *)
(***************************************************************************)
neighbors_raises(row, prev_row, next_row, surface_) ==
    /\ surface_ = "sphere"
    /\ (Len(row) = 0 \/ Len(next_row) = 0 \/ Len(prev_row) = 0)

\* neighbors whose non-sphere list leaves out the diagonal ix(prev_row, x + 1)
neighbors_seven(x, row, prev_row, next_row, surface_) ==
    IF surface_ = "sphere"
    THEN CountLive(<<
            ix(row, x - 1, row[Len(row)]),
            ix(row, x + 1, row[1]),
            ix(next_row, x - 1, next_row[Len(next_row)]),
            ix(next_row, x, DEAD),
            ix(next_row, x + 1, next_row[1]),
            ix(prev_row, x - 1, prev_row[Len(prev_row)]),
            ix(prev_row, x, DEAD),
            ix(prev_row, x + 1, prev_row[1]) >>)
    ELSE CountLive(<<
            ix(row, x - 1, DEAD),
            ix(row, x + 1, DEAD),
            ix(next_row, x - 1, DEAD),
            ix(next_row, x, DEAD),
            ix(next_row, x + 1, DEAD),
            ix(prev_row, x - 1, DEAD),
            ix(prev_row, x, DEAD) >>)

neighbors(x, row, prev_row, next_row, surface_) ==
    IF surface_ = "sphere"
    THEN CountLive(<<
            ix(row, x - 1, row[Len(row)]),
            ix(row, x + 1, row[1]),
            ix(next_row, x - 1, next_row[Len(next_row)]),
            ix(next_row, x, DEAD),
            ix(next_row, x + 1, next_row[1]),
            ix(prev_row, x - 1, prev_row[Len(prev_row)]),
            ix(prev_row, x, DEAD),
            ix(prev_row, x + 1, prev_row[1]) >>)
    ELSE CountLive(<<
            ix(row, x - 1, DEAD),
            ix(row, x + 1, DEAD),
            ix(next_row, x - 1, DEAD),
            ix(next_row, x, DEAD),
            ix(next_row, x + 1, DEAD),
            ix(prev_row, x - 1, DEAD),
            ix(prev_row, x, DEAD),
            ix(prev_row, x + 1, DEAD) >>)

(***************************************************************************)
(* update.  prev_row when row y (0-based) is visited: empty_row(), or      *)
(* board[-1] under "sphere", before the first row; the row visited before  *)
(* otherwise.  next_row: board[y + 1] when there is one, else empty_row(), *)
(* or board[0] under "sphere".                                             *)
(***************************************************************************)
update_prev_row(b, y, surface_) ==
    IF y = 0
    THEN (IF surface_ = "sphere" THEN b[Len(b)] ELSE empty_row)
    ELSE b[y]

\* the last row's next_row taken as board[-1] instead of board[0]
update_next_row_last(b, y, surface_) ==
    IF surface_ = "sphere" /\ y + 1 = Len(b)
    THEN b[Len(b)]
    ELSE IF 0 <= y + 1 /\ y + 1 < Len(b) THEN b[y + 2] ELSE empty_row

update_next_row(b, y, surface_) ==
    IF surface_ = "sphere" /\ y + 1 = Len(b)
    THEN b[1]
    ELSE IF 0 <= y + 1 /\ y + 1 < Len(b) THEN b[y + 2] ELSE empty_row

update_neighbor_count(b, y, x, surface_) ==
    neighbors(x, b[y + 1], update_prev_row(b, y, surface_),
              update_next_row(b, y, surface_), surface_)

\* LIVE if neighbor_count == 3 else cell if neighbor_count == 2 else DEAD
update_cell(cell, neighbor_count) ==
    IF neighbor_count = 3 THEN LIVE
    ELSE IF neighbor_count = 2 THEN cell
    ELSE DEAD

update_raises(b, surface_) ==
    \E y \in 0..(Len(b) - 1) :
        /\ Len(b[y + 1]) > 0
        /\ neighbors_raises(b[y + 1], update_prev_row(b, y, surface_),
                            update_next_row(b, y, surface_), surface_)

update_counts(b, surface_) ==
    [y1 \in 1..Len(b) |->
        [x1 \in 1..Len(b[y1]) |-> update_neighbor_count(b, y1 - 1, x1 - 1, surface_)]]

update(b, surface_) ==
    [y1 \in 1..Len(b) |->
        [x1 \in 1..Len(b[y1]) |->
            update_cell(b[y1][x1], update_neighbor_count(b, y1 - 1, x1 - 1, surface_))]]

(***************************************************************************)
(* empty, glider, add, shift.                                              *)
(***************************************************************************)
DeadRow(n) == [i \in 1..n |-> DEAD]

empty(width, height) == [y \in 1..height |-> DeadRow(width)]

\* list.reverse()
Reverse(s) == [i \in 1..Len(s) |-> s[Len(s) + 1 - i]]

GliderSize == 3

\* glider without the row.reverse() of "if not left"
glider_unmirrored(up, left) ==
    LET out == << <<DEAD, LIVE, DEAD>>,
                  <<LIVE, LIVE, DEAD>>,
                  <<LIVE, DEAD, LIVE>> >>
    IN IF ~up THEN Reverse(out) ELSE out

glider(up, left) ==
    LET out == << <<DEAD, LIVE, DEAD>>,
                  <<LIVE, LIVE, DEAD>>,
                  <<LIVE, DEAD, LIVE>> >>
        flipped == IF ~up THEN Reverse(out) ELSE out
    IN IF ~left THEN [y \in 1..Len(flipped) |-> Reverse(flipped[y])] ELSE flipped

\* add that takes the cell of other one column to the left
add_off_by_one(b, other_) ==
    [y1 \in 1..Len(b) |->
        LET other_row == IF y1 - 1 < Len(other_) THEN other_[y1] ELSE empty_row
        IN [x1 \in 1..Len(b[y1]) |-> b[y1][x1] \/ ix(other_row, x1 - 2, DEAD)]]

\* operator is bool.__or__ at every call
add(b, other_) ==
    [y1 \in 1..Len(b) |->
        LET other_row == IF y1 - 1 < Len(other_) THEN other_[y1] ELSE empty_row
        IN [x1 \in 1..Len(b[y1]) |-> b[y1][x1] \/ ix(other_row, x1 - 1, DEAD)]]

\* board[0] (y > 0) or board[-1] (y < 0) of a board without rows
shift_raises(b, y, x) == Len(b) = 0 /\ y # 0

\* The rows: abs(y) Dead rows as long as board[0] before the board (y > 0),
\* or as long as board[-1] after it (y < 0).  Then every row, the new ones
\* included, gets x Dead cells in front when x > 0; range(x) is empty for
\* x < 0, so the append of that branch never runs.
shift_rows(b, y) ==
    IF y > 0 THEN [i \in 1..y |-> DeadRow(Len(b[1]))] \o b
    ELSE IF y < 0 THEN b \o [i \in 1..(0 - y) |-> DeadRow(Len(b[Len(b)]))]
    ELSE b

shift(b, y, x) ==
    LET rows == shift_rows(b, y)
    IN [r \in 1..Len(rows) |-> IF x > 0 THEN DeadRow(x) \o rows[r] ELSE rows[r]]

(***************************************************************************)
(* Text.  A str is the sequence of its characters.                         *)
(***************************************************************************)
LIVE_STR == <<"#", " ">>
DEAD_STR == <<" ", " ">>

\* external's alphabet=("#", ".")
CompactAlphabet == << <<"#">>, <<".">> >>
PlainAlphabet == <<LIVE_STR, DEAD_STR>>

\* "#@&" + string.ascii_uppercase
DefaultLive ==
    {"#", "@", "&",
     "A", "B", "C", "D", "E", "F", "G", "H", "I", "J", "K", "L", "M",
     "N", "O", "P", "Q", "R", "S", "T", "U", "V", "W", "X", "Y", "Z"}

\* the characters str.strip() removes, among those of the model
Whitespace == {" ", "\t", "\n", "\r"}

\* sep.join(parts)
RECURSIVE Join(_, _)
Join(sep, parts) ==
    IF Len(parts) = 0 THEN << >>
    ELSE IF Len(parts) = 1 THEN parts[1]
    ELSE parts[1] \o sep \o Join(sep, Tail(parts))

\* show with sep="", as every caller leaves it
show(b, alphabet) ==
    LET live == alphabet[1]
        dead == alphabet[2]
    IN Join(<<"\n">>,
            [y \in 1..Len(b) |->
                Join(<< >>, [x \in 1..Len(b[y]) |-> IF b[y][x] THEN live ELSE dead])])

\* str.split(sep) for a one-character sep: the pieces between the separators
split(s, sep) ==
    LET at == {i \in 1..Len(s) : s[i] = sep}
        nth(k) == IF k = 0 THEN 0
                  ELSE IF k = Cardinality(at) + 1 THEN Len(s) + 1
                  ELSE CHOOSE i \in at : Cardinality({j \in at : j < i}) = k - 1
    IN [k \in 1..(Cardinality(at) + 1) |-> SubSeq(s, nth(k - 1) + 1, nth(k) - 1)]

\* str.strip()
strip(s) ==
    LET keep == {i \in 1..Len(s) : s[i] \notin Whitespace}
    IN IF keep = {} THEN << >>
       ELSE SubSeq(s, CHOOSE i \in keep : \A j \in keep : i <= j,
                      CHOOSE i \in keep : \A j \in keep : j <= i)

\* parse that keeps the blank lines as empty rows
parse_output_keeps_blank(lines_, live) ==
    [k \in 1..Len(lines_) |->
        [i \in 1..Len(strip(lines_[k])) |->
            IF strip(lines_[k])[i] \in live THEN LIVE ELSE DEAD]]

\* parse's output before its assertions
parse_output(lines_, live) ==
    LET stripped == [k \in 1..Len(lines_) |-> strip(lines_[k])]
        kept == SelectSeq(stripped, LAMBDA row : Len(row) # 0)
    IN [k \in 1..Len(kept) |->
            [i \in 1..Len(kept[k]) |-> IF kept[k][i] \in live THEN LIVE ELSE DEAD]]

\* assert len(output) > 0; assert all(len(row) > 0 for row in output)
parse_raises(lines_, live) ==
    LET out == parse_output(lines_, live)
    IN \/ ~(Len(out) > 0)
       \/ ~(\A k \in 1..Len(out) : Len(out[k]) > 0)

parse(lines_, live) == parse_output(lines_, live)

(***************************************************************************)
(* variants/codegolf/golf.py: B is the argument without its newlines,      *)
(* X(x) is B[x] for 0 <= x < 1024 and False otherwise, and cell i is       *)
(* printed from the count N of "#" among X at i-32, i+32, i-1, i+1, i+31,  *)
(* i-33, i+33, i-31, with a newline after every 32nd cell.                 *)
(***************************************************************************)
GolfWidth == 32
GolfCells == 1024

golf_B(argv1) == SelectSeq(argv1, LAMBDA ch : ch # "\n")

golf_X(B, x) == IF 0 <= x /\ x < GolfCells THEN B[x + 1] ELSE "False"

golf_N(B, i) ==
    LET N == << golf_X(B, i - GolfWidth), golf_X(B, i + GolfWidth),
                golf_X(B, i - 1), golf_X(B, i + 1),
                golf_X(B, i + GolfWidth - 1), golf_X(B, i - GolfWidth - 1),
                golf_X(B, i + GolfWidth + 1), golf_X(B, i - GolfWidth + 1) >>
    IN Cardinality({k \in 1..Len(N) : N[k] = "#"})

\* N == 3 and "#" or N == 2 and B[i] or "."
golf_cell(B, i) ==
    IF golf_N(B, i) = 3 THEN "#"
    ELSE IF golf_N(B, i) = 2 THEN B[i + 1]
    ELSE "."

\* B[x] of a B shorter than 1024 characters
golf_raises(argv1) == Len(golf_B(argv1)) < GolfCells

\* what the program prints: cell i, and "\n" when i % 32 == 31
golf(argv1) ==
    LET B == golf_B(argv1)
    IN [k \in 1..(GolfCells + GolfCells \div GolfWidth) |->
            IF (k - 1) % (GolfWidth + 1) = GolfWidth
            THEN "\n"
            ELSE golf_cell(B, ((k - 1) \div (GolfWidth + 1)) * GolfWidth
                                + ((k - 1) % (GolfWidth + 1)))]

(***************************************************************************)
(* The row objects of the loop.  heap maps a row's identity to its cells;  *)
(* a board is the sequence of its rows' identities.                        *)
(***************************************************************************)
Deref(h, ids) == [y \in 1..Len(ids) |-> h[ids[y]]]

\* new_row bound to the input's row object instead of a new list
update_new_row_aliased(h, ids, y) == ids[y]

\* new_row = empty_row(): a list that did not exist before
update_new_row(h, ids, y) == Len(h) + y

(***************************************************************************)
(* One call update(board, surface) on a grid drawn from the bounded sets.  *)
(***************************************************************************)
Init ==
    /\ pc = "call"
    /\ board \in UniformGrids(MaxH, MaxW) \cup RaggedGrids(MaxRaggedH, MaxRaggedW)
    /\ surface \in surfaces
    /\ new_board = << >>
    /\ neighbor_counts = << >>
    /\ args = << >>
    /\ other = << >>
    /\ heap = << >>
    /\ row_ids = << >>
    /\ iteration = 0
    /\ history = << >>
    /\ text = << >>
    /\ lines = << >>
    /\ output = << >>

UpdateReturns ==
    /\ pc = "call"
    /\ ~update_raises(board, surface)
    /\ new_board' = update(board, surface)
    /\ neighbor_counts' = update_counts(board, surface)
    /\ pc' = "returned"
    /\ UNCHANGED <<board, surface, args, compose_vars, loop_vars, text_vars>>

UpdateRaises ==
    /\ pc = "call"
    /\ update_raises(board, surface)
    /\ pc' = "IndexError"
    /\ UNCHANGED <<board, surface, update_vars, args, compose_vars, loop_vars, text_vars>>

Next == UpdateReturns \/ UpdateRaises

Spec == Init /\ [][Next]_vars

(***************************************************************************)
(* The composition of make_init_board, add(empty(width, height),           *)
(* shift(pattern, x=x, y=y)), on arguments drawn from the bounded sets.    *)
(***************************************************************************)
Gliders == {glider(up, left) : up \in BOOLEAN, left \in BOOLEAN}

InitCompose ==
    /\ pc = "compose"
    /\ args \in [width : 1..MaxEmptyDim, height : 1..MaxEmptyDim,
                 x : -1..MaxShift, y : -1..MaxShift,
                 pattern : RaggedGrids(MaxPatH, MaxPatW) \cup Gliders]
    /\ board = empty(args.width, args.height)
    /\ other = << >>
    /\ new_board = << >>
    /\ surface = "rectangle"
    /\ neighbor_counts = << >>
    /\ heap = << >>
    /\ row_ids = << >>
    /\ iteration = 0
    /\ history = << >>
    /\ text = << >>
    /\ lines = << >>
    /\ output = << >>

Shift ==
    /\ pc = "compose"
    /\ ~shift_raises(args.pattern, args.y, args.x)
    /\ other' = shift(args.pattern, args.y, args.x)
    /\ pc' = "shifted"
    /\ UNCHANGED <<board, surface, update_vars, args, loop_vars, text_vars>>

Add ==
    /\ pc = "shifted"
    /\ new_board' = add(board, other)
    /\ pc' = "added"
    /\ UNCHANGED <<board, surface, neighbor_counts, args, compose_vars, loop_vars, text_vars>>

NextCompose == Shift \/ Add

SpecCompose == InitCompose /\ [][NextCompose]_vars

(***************************************************************************)
(* loop: board = update_function(board) while iteration < max_iterations,  *)
(* with the built-in updater, from a board holding one glider.             *)
(***************************************************************************)
InitLoop ==
    /\ pc = "loop"
    /\ args \in [width : GliderSize..MaxDim, height : GliderSize..MaxDim,
                 x : 0..MaxShift, y : 0..MaxShift,
                 up : BOOLEAN, left : BOOLEAN]
    /\ surface \in surfaces
    /\ board = add(empty(args.width, args.height),
                   shift(glider(args.up, args.left), args.y, args.x))
    /\ heap = board
    /\ row_ids = [y \in 1..Len(board) |-> y]
    /\ iteration = 0
    /\ history = << [ids |-> row_ids, cells |-> board] >>
    /\ other = << >>
    /\ new_board = << >>
    /\ neighbor_counts = << >>
    /\ text = << >>
    /\ lines = << >>
    /\ output = << >>

LoopUpdate ==
    /\ pc = "loop"
    /\ iteration < MaxIterations
    /\ LET given == Deref(heap, row_ids)
           returned == update(given, surface)
           ids == [y \in 1..Len(given) |-> update_new_row(heap, row_ids, y)]
           written == {ids[y] : y \in 1..Len(ids)}
       IN /\ ~update_raises(given, surface)
          /\ heap' = [i \in (DOMAIN heap) \cup written |->
                        IF i \in written
                        THEN returned[CHOOSE y \in 1..Len(ids) : ids[y] = i]
                        ELSE heap[i]]
          /\ row_ids' = ids
          /\ board' = Deref(heap', ids)
          /\ history' = Append(history, [ids |-> ids, cells |-> returned])
    /\ iteration' = iteration + 1
    /\ UNCHANGED <<pc, surface, update_vars, args, compose_vars, text_vars>>

NextLoop == LoopUpdate

SpecLoop == InitLoop /\ [][NextLoop]_vars

(***************************************************************************)
(* show and parse.  A board drawn from the bounded sets is shown with the  *)
(* plain alphabet, split at the newlines and parsed, or goes the way of    *)
(* pick_updater's external: shown with ("#", "."), given to the golf       *)
(* program, whose output is split and parsed.  Or parse is given lines, as *)
(* make_init_board gives it a file's.                                      *)
(***************************************************************************)
\* the 32 x 32 boards whose Live cells are among these (y, x), 0-based
GolfCandidates == {<<10, 10>>, <<10, 11>>, <<10, 12>>, <<0, 31>>, <<1, 31>>, <<2, 31>>}

GolfBoards ==
    {[y \in 1..GolfWidth |-> [x \in 1..GolfWidth |-> <<y - 1, x - 1>> \in live]] :
        live \in SUBSET GolfCandidates}

LineChars == {"#", "A", ".", " "}

Lines == UNION {[1..n -> LineChars] : n \in 0..MaxLineLen}

InitText ==
    /\ \/ /\ pc = "show"
          /\ board \in UniformGrids(MaxTextH, MaxTextW)
          /\ args \in [alphabet : {PlainAlphabet, CompactAlphabet}]
          /\ lines = << >>
       \/ /\ pc = "show"
          /\ board \in GolfBoards
          /\ args = [alphabet |-> CompactAlphabet]
          /\ lines = << >>
       \/ /\ pc = "parse"
          /\ board = << >>
          /\ args = << >>
          /\ lines \in UNION {[1..n -> Lines] : n \in 0..MaxLines}
    /\ text = << >>
    /\ output = << >>
    /\ surface = "rectangle"
    /\ new_board = << >>
    /\ neighbor_counts = << >>
    /\ other = << >>
    /\ heap = << >>
    /\ row_ids = << >>
    /\ iteration = 0
    /\ history = << >>

Show ==
    /\ pc = "show"
    /\ text' = show(board, args.alphabet)
    /\ pc' = IF args.alphabet = CompactAlphabet THEN "encoded" ELSE "shown"
    /\ UNCHANGED <<board, surface, update_vars, args, compose_vars, loop_vars, lines, output>>

\* subprocess.check_output(command(encoded_board)).decode("utf-8")
GolfReturns ==
    /\ pc = "encoded"
    /\ ~golf_raises(text)
    /\ text' = golf(text)
    /\ pc' = "shown"
    /\ UNCHANGED <<board, surface, update_vars, args, compose_vars, loop_vars, lines, output>>

GolfRaises ==
    /\ pc = "encoded"
    /\ golf_raises(text)
    /\ pc' = "CalledProcessError"
    /\ UNCHANGED <<board, surface, update_vars, args, compose_vars, loop_vars, text_vars>>

Split ==
    /\ pc = "shown"
    /\ lines' = split(text, "\n")
    /\ pc' = "parse"
    /\ UNCHANGED <<board, surface, update_vars, args, compose_vars, loop_vars, text, output>>

ParseReturns ==
    /\ pc = "parse"
    /\ ~parse_raises(lines, DefaultLive)
    /\ output' = parse(lines, DefaultLive)
    /\ pc' = "parsed"
    /\ UNCHANGED <<board, surface, update_vars, args, compose_vars, loop_vars, text, lines>>

ParseRaises ==
    /\ pc = "parse"
    /\ parse_raises(lines, DefaultLive)
    /\ pc' = "AssertionError"
    /\ UNCHANGED <<board, surface, update_vars, args, compose_vars, loop_vars, text_vars>>

NextText == Show \/ GolfReturns \/ GolfRaises \/ Split \/ ParseReturns \/ ParseRaises

SpecText == InitText /\ [][NextText]_vars

(***************************************************************************)
(* The Game of Life rule stated on coordinates, for the claims: the eight  *)
(* offsets, the count with every position outside the grid Dead, and the   *)
(* count with both coordinates taken modulo the grid's size.               *)
(***************************************************************************)
Offsets == {d \in {-1, 0, 1} \X {-1, 0, 1} : d # <<0, 0>>}

InGrid(b, y, x) == y \in 1..Len(b) /\ x \in 1..Len(b[y])

DeadPaddedCount(b, y, x) ==
    Cardinality({d \in Offsets : InGrid(b, y + d[1], x + d[2]) /\ b[y + d[1]][x + d[2]]})

WrappedCount(b, y, x) ==
    LET H == Len(b)
        W == Len(b[1])
    IN Cardinality({d \in Offsets :
            b[((y - 1 + d[1] + H) % H) + 1][((x - 1 + d[2] + W) % W) + 1]})

SameShape(a, b) ==
    /\ Len(a) = Len(b)
    /\ \A y \in 1..Len(b) : Len(a[y]) = Len(b[y])

LifeRule(cell, n) == n = 3 \/ (n = 2 /\ cell)

OnlyLiveCell(b, y, x) ==
    \A r \in 1..Len(b) : \A c \in 1..Len(b[r]) : b[r][c] <=> (r = y /\ c = x)

(***************************************************************************)
(* C1: on a uniform grid under rectangle, infinite or ?, update returns a  *)
(* grid of the same shape whose cell (y, x) is Live exactly when n = 3, or *)
(* n = 2 and the input cell is Live, n being the Live cells among the      *)
(* in-grid positions around (y, x), every position outside counted Dead.   *)
(***************************************************************************)
C1_RectangleRule ==
    (pc = "returned" /\ IsUniform(board) /\ surface \in {"rectangle", "infinite", "?"})
        => /\ SameShape(new_board, board)
           /\ \A y \in 1..Len(board) : \A x \in 1..Len(board[y]) :
                new_board[y][x] = LifeRule(board[y][x], DeadPaddedCount(board, y, x))

\* an "infinite" 3 x 3 call in which one cell is born, one dies and one survives
C1_Witness ==
    /\ pc = "returned"
    /\ surface = "infinite"
    /\ IsUniform(board) /\ Len(board) = 3 /\ Len(board[1]) = 3
    /\ \E y \in 1..3 : \E x \in 1..3 : new_board[y][x] /\ ~board[y][x]
    /\ \E y \in 1..3 : \E x \in 1..3 : ~new_board[y][x] /\ board[y][x]
    /\ \E y \in 1..3 : \E x \in 1..3 : new_board[y][x] /\ board[y][x]

(***************************************************************************)
(* C2: under sphere, on a uniform H x W grid, the neighbor count update    *)
(* uses for cell (y, x) is the number of the eight offsets (dy, dx) with   *)
(* cell ((y+dy) mod H, (x+dx) mod W) Live, and lies in 0..8; on an N x N   *)
(* grid a single Live cell at one corner is counted for the opposite one.  *)
(***************************************************************************)
C2_SphereWraps ==
    (pc = "returned" /\ IsUniform(board) /\ surface = "sphere")
        => /\ SameShape(neighbor_counts, board)
           /\ \A y \in 1..Len(board) : \A x \in 1..Len(board[y]) :
                /\ neighbor_counts[y][x] = WrappedCount(board, y, x)
                /\ neighbor_counts[y][x] \in 0..8
           /\ LET N == Len(board)
              IN Len(board[1]) = N =>
                    /\ OnlyLiveCell(board, 1, 1) => neighbor_counts[N][N] >= 1
                    /\ OnlyLiveCell(board, N, N) => neighbor_counts[1][1] >= 1

\* a 3 x 3 sphere call whose only Live cell, at (0,0), is counted once for (2,2)
C2_Witness ==
    /\ pc = "returned"
    /\ surface = "sphere"
    /\ IsUniform(board) /\ Len(board) = 3 /\ Len(board[1]) = 3
    /\ OnlyLiveCell(board, 1, 1)
    /\ neighbor_counts[3][3] = 1

C8_TorusIsSphere ==
    (pc = "returned" /\ IsUniform(board) /\ surface = "torus")
        => new_board = update(board, "sphere")


(***************************************************************************)
(* C3: a glider(up, left) placed on an all-Dead rectangle grid with a Dead *)
(* margin around it is, after four applications of update, the same Live   *)
(* cells moved one row up (up) or down and one column left (left) or       *)
(* right, every other cell Dead.                                           *)
(***************************************************************************)
GliderHasMargin ==
    /\ args.x >= 1
    /\ args.y >= 1
    /\ args.x + GliderSize + 1 <= args.width
    /\ args.y + GliderSize + 1 <= args.height

C3_GliderTranslates ==
    (pc = "loop" /\ surface = "rectangle" /\ GliderHasMargin /\ iteration = 4)
        => LET start == history[1].cells
               dy == IF args.up THEN -1 ELSE 1
               dx == IF args.left THEN -1 ELSE 1
           IN /\ \A r \in 1..args.height : \A c \in 1..args.width :
                    start[r][c] <=>
                        /\ InGrid(glider(args.up, args.left), r - args.y, c - args.x)
                        /\ glider(args.up, args.left)[r - args.y][c - args.x]
              /\ SameShape(board, start)
              /\ \A r \in 1..Len(board) : \A c \in 1..Len(board[r]) :
                    board[r][c] <=> (InGrid(start, r - dy, c - dx) /\ start[r - dy][c - dx])

\* the fourth generation of a glider going down and right, with a margin of one cell
C3_Witness ==
    /\ pc = "loop"
    /\ surface = "rectangle"
    /\ iteration = 4
    /\ ~args.up /\ ~args.left
    /\ args.x = 1 /\ args.y = 1 /\ args.width = 5 /\ args.height = 5
    /\ board[5][4] /\ ~history[1].cells[5][4]

(***************************************************************************)
(* C7, as claimed: for w, h >= 1 and offsets x, y >= 0,                    *)
(* add(empty(w, h), shift(P, y, x)) is a w x h grid in which every Live    *)
(* cell (r, c) of P is Live at (r + y, c + x) and every other cell Dead.   *)
(***************************************************************************)
C7_EveryLiveCellPlaced ==
    (pc = "added" /\ args.x >= 0 /\ args.y >= 0)
        => /\ new_board \in UniformGrids(args.height, args.width)
           /\ Len(new_board) = args.height /\ Len(new_board[1]) = args.width
           /\ \A r \in 1..Len(args.pattern) : \A c \in 1..Len(args.pattern[r]) :
                args.pattern[r][c] =>
                    /\ InGrid(new_board, r + args.y, c + args.x)
                    /\ new_board[r + args.y][c + args.x]
           /\ \A r \in 1..Len(new_board) : \A c \in 1..Len(new_board[r]) :
                new_board[r][c] =>
                    /\ InGrid(args.pattern, r - args.y, c - args.x)
                    /\ args.pattern[r - args.y][c - args.x]

(***************************************************************************)
(* C7, amended: the result is a w x h grid whose cell (r + y, c + x) is    *)
(* Live exactly when (r, c) is a Live cell of P; a Live cell of P whose    *)
(* translated coordinate lies outside the w x h grid is dropped.           *)
(***************************************************************************)
C7_LiveCellsPlacedInGrid ==
    (pc = "added" /\ args.x >= 0 /\ args.y >= 0)
        => /\ Len(new_board) = args.height
           /\ \A r \in 1..Len(new_board) : Len(new_board[r]) = args.width
           /\ \A r \in 1..Len(new_board) : \A c \in 1..Len(new_board[r]) :
                new_board[r][c] <=>
                    /\ InGrid(args.pattern, r - args.y, c - args.x)
                    /\ args.pattern[r - args.y][c - args.x]

\* a glider shifted by (1, 1) onto a 3 x 3 grid: its cell (0,1) lands, its third row is dropped
C7_Witness ==
    /\ pc = "added"
    /\ args.x = 1 /\ args.y = 1 /\ args.width = 3 /\ args.height = 3
    /\ args.pattern = glider(TRUE, TRUE)
    /\ new_board[2][3] /\ new_board[3][2]
    /\ Len(other) = 4

(***************************************************************************)
(* C9: update never modifies its input and shares no row with it: every    *)
(* board the loop has held keeps the cells it had when produced, and no    *)
(* row of a board update returns is a row of the board it was given.       *)
(***************************************************************************)
C9_UpdateBuildsNewRows ==
    pc = "loop"
        => /\ \A k \in 1..Len(history) :
                Deref(heap, history[k].ids) = history[k].cells
           /\ \A k \in 1..(Len(history) - 1) :
                {history[k].ids[y] : y \in 1..Len(history[k].ids)}
                    \cap {history[k + 1].ids[y] : y \in 1..Len(history[k + 1].ids)} = {}

\* two sphere generations that differ from each other and from the first board
C9_Witness ==
    /\ pc = "loop"
    /\ surface = "sphere"
    /\ iteration = 2
    /\ history[1].cells # history[2].cells
    /\ history[2].cells # history[3].cells
    /\ board = history[3].cells

(***************************************************************************)
(* C5, as claimed: for a uniform grid g, parse(show(g).split("\n")), with  *)
(* show's plain alphabet and parse's default live markers, returns a grid  *)
(* identical to g.                                                         *)
(***************************************************************************)
C5_ShowParseRoundTrip ==
    (board # << >> /\ args.alphabet = PlainAlphabet)
        => /\ pc # "AssertionError"
           /\ pc = "parsed" => output = board

(***************************************************************************)
(* C6: parse fails, returning no grid, exactly when no line is non-blank   *)
(* after trimming; when it returns, the grid has one row per non-blank     *)
(* line, in input order, at least one row and no row of length zero.       *)
(***************************************************************************)
IsBlank(line) == \A i \in 1..Len(line) : line[i] \in Whitespace

NonBlank(ls) == {k \in 1..Len(ls) : ~IsBlank(ls[k])}

\* the index in ls of its n-th non-blank line
NthNonBlank(ls, n) ==
    CHOOSE k \in NonBlank(ls) : Cardinality({j \in NonBlank(ls) : j < k}) = n - 1

FirstInk(line) == CHOOSE i \in 1..Len(line) :
    line[i] \notin Whitespace /\ \A j \in 1..(i - 1) : line[j] \in Whitespace

LastInk(line) == CHOOSE i \in 1..Len(line) :
    line[i] \notin Whitespace /\ \A j \in (i + 1)..Len(line) : line[j] \in Whitespace

C6_ParseRejectsBlankInput ==
    /\ pc = "AssertionError" => (NonBlank(lines) = {} /\ output = << >>)
    /\ pc = "parsed" =>
            /\ NonBlank(lines) # {}
            /\ Len(output) = Cardinality(NonBlank(lines))
            /\ Len(output) >= 1
            /\ \A n \in 1..Len(output) :
                LET line == lines[NthNonBlank(lines, n)]
                IN /\ Len(output[n]) > 0
                   /\ Len(output[n]) = LastInk(line) - FirstInk(line) + 1
                   /\ \A i \in 1..Len(output[n]) :
                        output[n][i] <=> (line[FirstInk(line) + i - 1] \in DefaultLive)

\* parse(["", "  "]) has raised
C6_Witness ==
    /\ pc = "AssertionError"
    /\ lines = << << >>, <<" ", " ">> >>
    /\ output = << >>

(***************************************************************************)
(* C10, as claimed: for a 32 x 32 board the golf program's output,         *)
(* decoded, is update(board, "rectangle"): the next generation with every  *)
(* cell outside the grid Dead.                                             *)
(***************************************************************************)
C10_GolfIsRectangleUpdate ==
    (board # << >> /\ args.alphabet = CompactAlphabet /\ pc = "parsed")
        => output = update(board, "rectangle")

====
